---- MODULE Spec2Model ----
(***************************************************************************)
(* Character Chat + Image App (src/main.py, src/schemas.py).               *)
(*                                                                         *)
(* The HTTP handlers of main.py run concurrently (one per worker thread);  *)
(* every call on the document store is one atomic step, the local          *)
(* computation between two store calls belongs to the step of the store    *)
(* call it precedes or follows, so a handler's first step runs from its    *)
(* entry through its first store call.  The three collections live in the  *)
(* external store and survive a restart of the server process.  A response *)
(* is delivered to the client before the server takes its next step.       *)
(***************************************************************************)
EXTENDS Integers, Sequences, FiniteSets, TLC

(***************************************************************************)
(* Bounds of the model.                                                    *)
(***************************************************************************)
NumProcs == 2      \* concurrent request handlers
MaxUuid  == 5      \* uuid4() values drawn in one behaviour
MaxCharacters == 2 \* characters created in one behaviour
MaxTime  == 1      \* readings of the wall clock are 0..MaxTime
MaxSalt  == 1      \* per-process string-hash salts are 0..MaxSalt

Procs == 1..NumProcs
Times == 0..MaxTime
Salts == 0..MaxSalt

(***************************************************************************)
(* Python's None: for Optional[int] fields and for Optional[str] fields.   *)
(***************************************************************************)
None    == -1
NoneStr == "None"
NoDoc   == [none |-> TRUE]          \* find_one(...) found nothing
NoFrame == [op |-> "idle"]
NoResponse == [op |-> "none"]       \* no response is being sent

(***************************************************************************)
(* Request inputs, drawn from small sets.                                  *)
(***************************************************************************)
Usernames     == {"al", "bo"}
Registrants   == {"al"}             \* the usernames POST /users is called with
Posters       == {"al"}             \* the usernames of the chat messages
Names         == {"Ann"}
Personalities == {"calm"}
Appearances   == {"tall"}
Prompts       == {"draw a cat", "draw a bird"}
Styles        == {NoneStr, "oil"}
Ratings       == {"SFW", "NSFW"}
Texts         == {<<"h", "i">>}          \* a text is the sequence of its characters
MissingId     == 0                  \* an id no uuid4() ever yields

\* JSON bodies of POST /users: a field may be left out.
RawProfiles ==
    UNION { { [username |-> u],
              [username |-> u, age |-> a],
              [username |-> u, trust_score |-> t],
              [username |-> u, age |-> a, trust_score |-> t] } :
            <<u, a, t>> \in Registrants \X {30, 151} \X {100} }

\* JSON bodies of POST /characters.
ChatCharacters ==
    { [name |-> n, personality |-> q, appearance |-> a, creator_username |-> u] :
        <<n, q, a, u>> \in Names \X Personalities \X Appearances \X {"al"} }

RawCharacters ==
    ChatCharacters \cup
    { [name |-> n, personality |-> q, creator_username |-> u, nsfw_allowed |-> TRUE] :
        <<n, q, u>> \in Names \X Personalities \X {"al"} }

VARIABLES
    db,           \* the store handle imported from database: "None" or "Database"
    hashSalt,     \* the salt of this process's str hash
    tieBreak,     \* how the store orders documents with equal sort keys
    clock,        \* datetime.now(timezone.utc)
    nextUuid,     \* number of uuid4() values drawn so far
    userprofile,  \* collection db["userprofile"], in natural order
    character,    \* collection db["character"]
    message,      \* collection db["message"]
    pc,           \* where each handler is
    frame,        \* the local variables of each running handler
    response,     \* the HTTP response being sent, if any
    shown         \* a completed image response that a client has kept

vars == <<db, hashSalt, tieBreak, clock, nextUuid, userprofile, character,
          message, pc, frame, response, shown>>

store == <<userprofile, character, message>>

(***************************************************************************)
(* Schemas (src/schemas.py).                                               *)
(***************************************************************************)
Get(d, k, default) == IF k \in DOMAIN d THEN d[k] ELSE default

\* UserProfile(**body): defaults of the fields left out.
UserProfile(raw) ==
    [username    |-> raw.username,
     age         |-> Get(raw, "age", None),
     trust_score |-> Get(raw, "trust_score", 0)]

\* The Field(...) constraints of UserProfile.
UserProfileValid(raw) ==
    LET p == UserProfile(raw) IN
    /\ Len(p.username) >= 2 /\ Len(p.username) <= 32
    /\ p.age = None \/ (p.age >= 0 /\ p.age <= 150)
    /\ p.trust_score >= 0 /\ p.trust_score <= 100

\* Character(**body): defaults of the fields left out.
Character(raw) ==
    [name             |-> raw.name,
     personality      |-> raw.personality,
     appearance       |-> Get(raw, "appearance", NoneStr),
     location         |-> Get(raw, "location", NoneStr),
     creator_username |-> raw.creator_username,
     nsfw_allowed     |-> Get(raw, "nsfw_allowed", FALSE)]

(***************************************************************************)
(* The document store: find_one, find().sort(), insert_one, update_one.    *)
(***************************************************************************)
Matching(coll, field, value) ==
    { i \in 1..Len(coll) : coll[i][field] = value }

Min(S) == CHOOSE x \in S : \A y \in S : x <= y

\* A find_one whose filter is dropped: the first document, whatever it is.
find_one_unfiltered(coll, field, value) ==
    IF coll = <<>> THEN NoDoc ELSE coll[1]

\* find_one({field: value}): the first match in natural order, or None.
find_one(coll, field, value) ==
    IF Matching(coll, field, value) = {} THEN NoDoc
    ELSE coll[Min(Matching(coll, field, value))]

\* insert_one(doc) raises DuplicateKeyError when the _id is taken.
DuplicateKey(coll, doc) == Matching(coll, "_id", doc._id) # {}

insert_one(coll, doc) == Append(coll, doc)

\* update_one({"_id": id}, {"$set": fields}): the first match gets the fields.
update_one(coll, id, fields) ==
    IF Matching(coll, "_id", id) = {} THEN coll
    ELSE LET i == Min(Matching(coll, "_id", id)) IN
         [coll EXCEPT ![i] =
            [k \in DOMAIN coll[i] \cup DOMAIN fields |->
                IF k \in DOMAIN fields THEN fields[k] ELSE coll[i][k]]]

\* find().sort(key, dir): documents in key order; the order of documents
\* with equal keys is the store's, by natural order or against it.
Before(docs, key, dir, i, j) ==
    \/ dir = 1 /\ docs[i][key] < docs[j][key]
    \/ dir = -1 /\ docs[i][key] > docs[j][key]
    \/ docs[i][key] = docs[j][key] /\
          IF tieBreak = "natural" THEN i < j ELSE i > j

Sort(docs, key, dir) ==
    [k \in 1..Len(docs) |->
        docs[CHOOSE i \in 1..Len(docs) :
                Cardinality({ j \in 1..Len(docs) : Before(docs, key, dir, j, i) }) = k - 1]]

Filter(coll, field, value) ==
    LET F[n \in 0..Len(coll)] ==
            IF n = 0 THEN <<>>
            ELSE IF coll[n][field] = value THEN Append(F[n - 1], coll[n])
            ELSE F[n - 1]
    IN F[Len(coll)]

\* list_collection_names(): a collection exists once a document was inserted.
list_collection_names ==
    (IF userprofile # <<>> THEN <<"userprofile">> ELSE <<>>) \o
    (IF character # <<>> THEN <<"character">> ELSE <<>>) \o
    (IF message # <<>> THEN <<"message">> ELSE <<>>)

(***************************************************************************)
(* Utils.                                                                  *)
(***************************************************************************)
\* doc_to_str_id: a copy with "_id" replaced by "id"; the ids of this
\* program are already strings, which str() leaves as they are.
doc_to_str_id(doc) ==
    IF "_id" \in DOMAIN doc
    THEN [k \in (DOMAIN doc \ {"_id"}) \cup {"id"} |->
            IF k = "id" THEN doc._id ELSE doc[k]]
    ELSE doc

\* {k: doc.get(k) for k in ["username", "age", "trust_score"]}
UserOut(doc) ==
    [username    |-> Get(doc, "username", NoneStr),
     age         |-> Get(doc, "age", None),
     trust_score |-> Get(doc, "trust_score", None)]

Map(f(_), s) == [i \in 1..Len(s) |-> f(s[i])]

\* raise HTTPException(status_code=..., detail=...)
HTTPException(op, code, detail, calls) ==
    [op |-> op, status |-> code, detail |-> detail, store_calls |-> calls]

\* A handler's return value, sent with status 200; locals are the handler's
\* local variables when it returns.
Return(op, body, locals) ==
    [op |-> op, status |-> 200, body |-> body,
     store_calls |-> locals.store_calls, locals |-> locals]

\* The check left out of get_messages.
db_is_None_unchecked_history(op) == op # "get_messages" /\ db = "None"

\* if db is None: raise HTTPException(status_code=500, ...)
db_is_None(op) == db = "None"

At(p, label) == response = NoResponse /\ pc[p] = label

\* The handler run by p ends with resp.
Finish(p, resp) ==
    /\ pc' = [pc EXCEPT ![p] = "idle"]
    /\ frame' = [frame EXCEPT ![p] = NoFrame]
    /\ response' = resp

\* The handler run by p goes on at label with these locals.
Goto(p, label, locals) ==
    /\ pc' = [pc EXCEPT ![p] = label]
    /\ frame' = [frame EXCEPT ![p] = locals]
    /\ response' = NoResponse

\* The locals of p after one more store call.
Called(p) == [frame[p] EXCEPT !.store_calls = @ + 1]

\* The locals of a handler that has made its first store call.
Entered(op, args) == [op |-> op, store_calls |-> 1] @@ args

DataOps == {"upsert_user", "get_user", "create_character", "list_characters",
            "post_message", "get_messages", "generate_image"}

\* Any data handler, entered without a store handle.
database_not_available(p, op) ==
    /\ At(p, "idle")
    /\ db_is_None(op)
    /\ Finish(p, HTTPException(op, 500, "Database not available", 0))
    /\ UNCHANGED <<db, hashSalt, tieBreak, clock, nextUuid, store, shown>>

\* The first store call of a data handler raises: 500, nothing written.
first_call_error(p, op) ==
    /\ At(p, "idle")
    /\ ~db_is_None(op)
    /\ Finish(p, HTTPException(op, 500, "store error", 1))
    /\ UNCHANGED <<db, hashSalt, tieBreak, clock, nextUuid, store, shown>>

\* A later store call raises: the call has no effect, the handler ends with 500.
store_error(p) ==
    /\ response = NoResponse
    /\ pc[p] # "idle"
    /\ Finish(p, HTTPException(frame[p].op, 500, "store error", frame[p].store_calls + 1))
    /\ UNCHANGED <<db, hashSalt, tieBreak, clock, nextUuid, store, shown>>

(***************************************************************************)
(* uuid4(): a value never drawn before.  A handler starts only while the   *)
(* values it and the running handlers still draw are within MaxUuid.       *)
(***************************************************************************)
uuid4 == nextUuid + 1

Need(q) == IF pc[q] \in {"pm_insert_user", "gi_find_user"} THEN 1 ELSE 0

RECURSIVE Sum(_, _)
Sum(f(_), S) ==
    IF S = {} THEN 0
    ELSE LET x == CHOOSE y \in S : TRUE IN f(x) + Sum(f, S \ {x})

UuidsLeft(n) == nextUuid + Sum(Need, Procs) + n <= MaxUuid

(***************************************************************************)
(* Users.                                                                  *)
(***************************************************************************)
\* profile.model_dump(exclude_none=True): the None fields left out.
model_dump_exclude_none(profile) ==
    [k \in { f \in DOMAIN profile : f = "username" \/ profile[f] # None } |-> profile[k]]

\* profile.model_dump(): every field, None ones included.
model_dump(profile) == profile

\* A generated primary key, as the other collections have: one not yet stored.
user_generated_key(profile) ==
    CHOOSE id \in {"id1", "id2", "id3", "id4"} :
        \A i \in 1..Len(userprofile) : userprofile[i]._id # id

\* payload["_id"] = profile.username  # readable primary key
user_primary_key(profile) == profile.username

\* The request body fails the schema: FastAPI answers 422, no handler runs.
validation_error(p, raw) ==
    /\ At(p, "idle")
    /\ ~UserProfileValid(raw)
    /\ Finish(p, HTTPException("upsert_user", 422, "validation", 0))
    /\ UNCHANGED <<db, hashSalt, tieBreak, clock, nextUuid, store, shown>>

\* existing = find_one({"username": ...}); payload = model_dump() + updated_at
upsert_user(p, raw) ==
    /\ At(p, "idle")
    /\ UserProfileValid(raw)
    /\ ~db_is_None("upsert_user")
    /\ LET profile  == UserProfile(raw)
           existing == find_one(userprofile, "username", profile.username)
           payload  == [updated_at |-> clock] @@ model_dump(profile)
       IN Goto(p, IF existing # NoDoc THEN "up_update" ELSE "up_insert",
               Entered("upsert_user",
                       [profile |-> profile, existing |-> existing, payload |-> payload]))
    /\ UNCHANGED <<db, hashSalt, tieBreak, clock, nextUuid, store, shown>>

\* update_one({"_id": existing["_id"]}, {"$set": payload})
up_update(p) ==
    /\ At(p, "up_update")
    /\ userprofile' = update_one(userprofile, frame[p].existing._id, frame[p].payload)
    /\ Goto(p, "up_reread", Called(p))
    /\ UNCHANGED <<db, hashSalt, tieBreak, clock, nextUuid, character, message, shown>>

\* doc = find_one({"_id": existing["_id"]}); return UserProfile(...)
up_reread(p) ==
    /\ At(p, "up_reread")
    /\ LET doc == find_one(userprofile, "_id", frame[p].existing._id) IN
       IF doc = NoDoc
       THEN Finish(p, HTTPException("upsert_user", 500, "doc is None",
                                    frame[p].store_calls + 1))
       ELSE Finish(p, Return("upsert_user", UserOut(doc), [doc |-> doc] @@ Called(p)))
    /\ UNCHANGED <<db, hashSalt, tieBreak, clock, nextUuid, store, shown>>

\* payload["created_at"], payload["_id"]; insert_one(payload); doc = payload
up_insert(p) ==
    /\ At(p, "up_insert")
    /\ LET payload == [created_at |-> clock,
                       _id |-> user_primary_key(frame[p].profile)] @@ frame[p].payload
       IN IF DuplicateKey(userprofile, payload)
          THEN /\ Finish(p, HTTPException("upsert_user", 500, "DuplicateKeyError",
                                          frame[p].store_calls + 1))
               /\ UNCHANGED userprofile
          ELSE /\ userprofile' = insert_one(userprofile, payload)
               /\ Finish(p, Return("upsert_user", UserOut(payload),
                                   [payload |-> payload, doc |-> payload] @@ Called(p)))
    /\ UNCHANGED <<db, hashSalt, tieBreak, clock, nextUuid, character, message, shown>>

get_user(p, username) ==
    /\ At(p, "idle")
    /\ ~db_is_None("get_user")
    /\ LET doc == find_one(userprofile, "username", username) IN
       IF doc = NoDoc
       THEN Finish(p, HTTPException("get_user", 404, "User not found", 1))
       ELSE Finish(p, Return("get_user", UserOut(doc),
                             Entered("get_user", [username |-> username])))
    /\ UNCHANGED <<db, hashSalt, tieBreak, clock, nextUuid, store, shown>>

(***************************************************************************)
(* Characters.                                                             *)
(***************************************************************************)
CharacterOut(d) ==
    [id               |-> d.id,
     name             |-> d.name,
     personality      |-> d.personality,
     appearance       |-> Get(d, "appearance", NoneStr),
     location         |-> Get(d, "location", NoneStr),
     creator_username |-> d.creator_username,
     nsfw_allowed     |-> Get(d, "nsfw_allowed", FALSE),
     created_at       |-> d.created_at]

CharacterOutOfDoc(doc) == CharacterOut(doc_to_str_id(doc))

\* data = model_dump() + created_at, updated_at, _id; insert_one(data)
create_character(p, raw) ==
    /\ At(p, "idle")
    /\ ~db_is_None("create_character")
    /\ UuidsLeft(1)
    /\ Len(character) < MaxCharacters
    /\ LET data == [created_at |-> clock, updated_at |-> clock, _id |-> uuid4]
                       @@ Character(raw)
       IN /\ character' = insert_one(character, data)
          /\ Finish(p, Return("create_character", CharacterOutOfDoc(data),
                              Entered("create_character", [data |-> data])))
    /\ nextUuid' = nextUuid + 1
    /\ UNCHANGED <<db, hashSalt, tieBreak, clock, userprofile, message, shown>>

\* docs = list(db["character"].find().sort("created_at", -1))
list_characters(p) ==
    /\ At(p, "idle")
    /\ ~db_is_None("list_characters")
    /\ Finish(p, Return("list_characters",
                        Map(CharacterOutOfDoc, Sort(character, "created_at", -1)),
                        Entered("list_characters", <<>>)))
    /\ UNCHANGED <<db, hashSalt, tieBreak, clock, nextUuid, store, shown>>

(***************************************************************************)
(* Chat messages.                                                          *)
(***************************************************************************)
PromptSafeLen == 400

Take(s, n) == SubSeq(s, 1, IF Len(s) < n THEN Len(s) ELSE n)

\* The f-string of generate_character_reply, a piece per element.
generate_character_reply(char, user_text) ==
    LET persona     == Get(char, "personality", "kind and helpful")
        name        == Get(char, "name", "Your character")
        prompt_safe == Take(user_text, PromptSafeLen)
    IN <<name, ": As a ", persona, " character, I hear you say: '">>
       \o prompt_safe
       \o <<"'. Here's my friendly response: I'm excited to chat and co-create images. Share more about style, mood, and setting!">>

MessageOut(d) ==
    [id           |-> d.id,
     character_id |-> d.character_id,
     username     |-> d.username,
     text         |-> d.text,
     role         |-> d.role,
     created_at   |-> d.created_at]

MessageOutOfDoc(doc) == MessageOut(doc_to_str_id(doc))

\* The reply stored under the caller's username.
char_msg_username_of_caller(char, payload) == payload.username

\* "username": char.get("name", "character")
char_msg_username(char, payload) == Get(char, "name", "character")

\* The 404 check left out.
char_missing_unchecked(char) == FALSE

\* if not char: the handler stops with 404 before it writes.
char_missing(char) == char = NoDoc

\* The re-read without .sort("created_at", 1): natural order.
post_message_history_unsorted(character_id) ==
    Map(MessageOutOfDoc, Filter(message, "character_id", character_id))

\* post_message: list(db["message"].find({"character_id": ...}).sort("created_at", 1))
post_message_history(character_id) ==
    Map(MessageOutOfDoc, Sort(Filter(message, "character_id", character_id), "created_at", 1))

\* get_messages: list(db["message"].find({"character_id": ...}).sort("created_at", 1))
get_messages_history(character_id) ==
    Map(MessageOutOfDoc, Sort(Filter(message, "character_id", character_id), "created_at", 1))

\* Ids a client can name: those of the stored characters, or a wrong one.
KnownIds == { character[i]._id : i \in 1..Len(character) } \cup {MissingId}

\* char = find_one({"_id": character_id}); now; user_msg
post_message(p, character_id, payload) ==
    /\ At(p, "idle")
    /\ ~db_is_None("post_message")
    /\ UuidsLeft(2)
    /\ LET char == find_one(character, "_id", character_id) IN
       IF char_missing(char)
       THEN /\ Finish(p, HTTPException("post_message", 404, "Character not found", 1))
            /\ UNCHANGED nextUuid
       ELSE LET now == clock
                user_msg == [_id          |-> uuid4,
                             character_id |-> character_id,
                             username     |-> payload.username,
                             text         |-> payload.text,
                             role         |-> "user",
                             created_at   |-> now,
                             updated_at   |-> now]
            IN /\ Goto(p, "pm_insert_user",
                       Entered("post_message",
                               [character_id |-> character_id, payload |-> payload,
                                char |-> char, now |-> now, user_msg |-> user_msg,
                                inserted |-> <<>>]))
               /\ nextUuid' = nextUuid + 1
    /\ UNCHANGED <<db, hashSalt, tieBreak, clock, store, shown>>

\* insert_one(user_msg); reply_text; char_msg
pm_insert_user(p) ==
    /\ At(p, "pm_insert_user")
    /\ message' = insert_one(message, frame[p].user_msg)
    /\ LET char     == frame[p].char
           char_msg == [_id          |-> uuid4,
                        character_id |-> frame[p].character_id,
                        username     |-> char_msg_username(char, frame[p].payload),
                        text         |-> generate_character_reply(char, frame[p].payload.text),
                        role         |-> "character",
                        created_at   |-> frame[p].now,
                        updated_at   |-> frame[p].now]
       IN Goto(p, "pm_insert_char",
               [char_msg |-> char_msg,
                inserted |-> Append(frame[p].inserted, frame[p].user_msg._id)]
               @@ Called(p))
    /\ nextUuid' = nextUuid + 1
    /\ UNCHANGED <<db, hashSalt, tieBreak, clock, userprofile, character, shown>>

\* insert_one(char_msg)
pm_insert_char(p) ==
    /\ At(p, "pm_insert_char")
    /\ message' = insert_one(message, frame[p].char_msg)
    /\ Goto(p, "pm_find_all",
            [inserted |-> Append(frame[p].inserted, frame[p].char_msg._id)] @@ Called(p))
    /\ UNCHANGED <<db, hashSalt, tieBreak, clock, nextUuid, userprofile, character, shown>>

\* msgs = list(find(...).sort(...)); return out
pm_find_all(p) ==
    /\ At(p, "pm_find_all")
    /\ Finish(p, Return("post_message", post_message_history(frame[p].character_id),
                        Called(p)))
    /\ UNCHANGED <<db, hashSalt, tieBreak, clock, nextUuid, store, shown>>

get_messages(p, character_id) ==
    /\ At(p, "idle")
    /\ ~db_is_None("get_messages")
    /\ Finish(p, Return("get_messages", get_messages_history(character_id),
                        Entered("get_messages", [character_id |-> character_id])))
    /\ UNCHANGED <<db, hashSalt, tieBreak, clock, nextUuid, store, shown>>

(***************************************************************************)
(* Image generation.                                                       *)
(***************************************************************************)
HashModulus == 8192

\* hash(desc) of a str: a signed value that depends on the process's salt.
RECURSIVE HashFrom(_, _)
HashFrom(h, pieces) ==
    IF pieces = <<>> THEN h
    ELSE HashFrom((h * 31 + Len(Head(pieces)) * 7 + hashSalt * 13) % HashModulus,
                  Tail(pieces))

hash(pieces) ==
    LET h == HashFrom(hashSalt * 101 + 17, pieces) IN
    IF h >= HashModulus \div 2 THEN h - HashModulus ELSE h

abs(n) == IF n < 0 THEN 0 - n ELSE n

\* x or ''
OrEmpty(x) == IF x = NoneStr \/ x = "" THEN "" ELSE x

\* desc = f"{name} | {personality} | {appearance or ''} | {location or ''} | {prompt}"
desc(char, req) ==
    <<Get(char, "name", NoneStr), " | ", Get(char, "personality", NoneStr), " | ",
      OrEmpty(Get(char, "appearance", NoneStr)), " | ",
      OrEmpty(Get(char, "location", NoneStr)), " | ", req.prompt>>

\* A gate that trust_score, age and nsfw_allowed open.
nsfw_blocked_unless_trusted(req, char, user) ==
    /\ req.rating = "NSFW"
    /\ ~(/\ Get(user, "trust_score", 0) >= 80
         /\ Get(user, "age", None) >= 18
         /\ Get(char, "nsfw_allowed", FALSE))

\* if req.rating == "NSFW": blocked, whoever asks
nsfw_blocked(req, char, user) == req.rating = "NSFW"

ImageGenResponse(id, status, msg, image_url) ==
    [id |-> id, status |-> status, message |-> msg, image_url |-> image_url]

\* ImageRequest(**body): rating defaults to "SFW", style to None.
ImageRequest(raw) ==
    [character_id |-> raw.character_id,
     username     |-> raw.username,
     prompt       |-> raw.prompt,
     style        |-> Get(raw, "style", NoneStr),
     rating       |-> Get(raw, "rating", "SFW")]

RawImageRequests(ids) ==
    { [character_id |-> c, username |-> u, prompt |-> q] :
        <<c, u, q>> \in ids \X Usernames \X Prompts }
    \cup
    { [character_id |-> c, username |-> u, prompt |-> q, style |-> s, rating |-> r] :
        <<c, u, q, s, r>> \in ids \X Usernames \X Prompts \X (Styles \ {NoneStr}) \X Ratings }

\* char = find_one({"_id": req.character_id})
generate_image(p, raw) ==
    /\ At(p, "idle")
    /\ ~db_is_None("generate_image")
    /\ UuidsLeft(1)
    /\ LET req  == ImageRequest(raw)
           char == find_one(character, "_id", req.character_id)
       IN IF char = NoDoc
          THEN Finish(p, HTTPException("generate_image", 404, "Character not found", 1))
          ELSE Goto(p, "gi_find_user",
                    Entered("generate_image", [req |-> req, char |-> char]))
    /\ UNCHANGED <<db, hashSalt, tieBreak, clock, nextUuid, store, shown>>

\* user = find_one({"username": req.username}); the rating gate; the url
gi_find_user(p) ==
    /\ At(p, "gi_find_user")
    /\ LET user == find_one(userprofile, "username", frame[p].req.username)
           req  == frame[p].req
           char == frame[p].char
           seed == abs(hash(desc(char, req))) % 1000
           placeholder_url == "https://picsum.photos/seed/" \o ToString(seed) \o "/768/512"
           locals == [user |-> user] @@ Called(p)
       IN IF user = NoDoc
          THEN /\ Finish(p, HTTPException("generate_image", 404, "User not found",
                                          frame[p].store_calls + 1))
               /\ UNCHANGED <<nextUuid, shown>>
          ELSE IF nsfw_blocked(req, char, user)
          THEN /\ Finish(p, Return("generate_image",
                                ImageGenResponse(uuid4, "blocked",
                                    "NSFW image generation is gated and disabled in this demo. Earn trust and ensure adult age in a production-ready system.",
                                    NoneStr),
                                locals))
               /\ nextUuid' = nextUuid + 1
               /\ UNCHANGED shown
          ELSE /\ Finish(p, Return("generate_image",
                                ImageGenResponse(uuid4, "completed",
                                    "SFW image created (placeholder)", placeholder_url),
                                locals))
               /\ nextUuid' = nextUuid + 1
               /\ shown' \in {shown, [character_id |-> req.character_id,
                                         prompt |-> req.prompt,
                                         image_url |-> placeholder_url]}
    /\ UNCHANGED <<db, hashSalt, tieBreak, clock, store>>

(***************************************************************************)
(* Health.                                                                 *)
(***************************************************************************)
\* {"message": "Backend running", "database": bool(db)}
root(p) ==
    /\ At(p, "idle")
    /\ Finish(p, [op |-> "root", status |-> 200, store_calls |-> 0,
                  body |-> [message |-> "Backend running", database |-> db # "None"]])
    /\ UNCHANGED <<db, hashSalt, tieBreak, clock, nextUuid, store, shown>>

test_response(database, url_set, collections) ==
    [backend       |-> "Running",
     database      |-> database,
     database_url  |-> IF url_set THEN "Set" ELSE "Not Set",
     collections   |-> collections]

\* url_set: whether DATABASE_URL is in the environment.
test_database(p, url_set) ==
    /\ At(p, "idle")
    /\ IF db = "None"
       THEN Finish(p, [op |-> "test_database", status |-> 200, store_calls |-> 0,
                       body |-> test_response("Not Available", url_set, <<>>)])
       ELSE Finish(p, [op |-> "test_database", status |-> 200, store_calls |-> 1,
                       body |-> test_response("Connected", url_set,
                                              Take(list_collection_names, 10))])
    /\ UNCHANGED <<db, hashSalt, tieBreak, clock, nextUuid, store, shown>>

\* except Exception as e: response["database"] = "Error: ..."
test_database_error(p, url_set) ==
    /\ At(p, "idle")
    /\ db # "None"
    /\ Finish(p, [op |-> "test_database", status |-> 200, store_calls |-> 1,
                  body |-> test_response("Error", url_set, <<>>)])
    /\ UNCHANGED <<db, hashSalt, tieBreak, clock, nextUuid, store, shown>>

(***************************************************************************)
(* The environment: delivery of responses, the clock, restarts.            *)
(***************************************************************************)
Deliver ==
    /\ response # NoResponse
    /\ response' = NoResponse
    /\ UNCHANGED <<db, hashSalt, tieBreak, clock, nextUuid, store, pc, frame, shown>>

Tick ==
    /\ response = NoResponse
    /\ clock < MaxTime
    /\ clock' = clock + 1
    /\ UNCHANGED <<db, hashSalt, tieBreak, nextUuid, store, pc, frame, response, shown>>

\* The process ends and starts again: running handlers are lost, the module
\* globals are set anew, the store keeps its documents.
Restart ==
    /\ response = NoResponse
    /\ db' \in {"None", "Database"}
    /\ hashSalt' \in Salts
    /\ pc' = [p \in Procs |-> "idle"]
    /\ frame' = [p \in Procs |-> NoFrame]
    /\ UNCHANGED <<tieBreak, clock, nextUuid, store, response, shown>>

Init ==
    /\ db \in {"None", "Database"}
    /\ hashSalt \in Salts
    /\ tieBreak \in {"natural", "reverse"}
    /\ clock = 0
    /\ nextUuid = 0
    /\ userprofile = <<>>
    /\ character = <<>>
    /\ message = <<>>
    /\ pc = [p \in Procs |-> "idle"]
    /\ frame = [p \in Procs |-> NoFrame]
    /\ response = NoResponse
    /\ shown = NoResponse

\* Steps that belong to no single handler, for handlers run by P.
Environment(P, ops) ==
    \/ \E p \in P, op \in ops : database_not_available(p, op)
    \/ \E p \in P, op \in ops : first_call_error(p, op)
    \/ \E p \in P : store_error(p)
    \/ Deliver

UpsertSteps(P) ==
    \/ \E p \in P, raw \in RawProfiles : upsert_user(p, raw)
    \/ \E p \in P : up_update(p)
    \/ \E p \in P : up_reread(p)
    \/ \E p \in P : up_insert(p)

UserSteps(P) ==
    \/ \E p \in P, raw \in RawProfiles : validation_error(p, raw)
    \/ UpsertSteps(P)
    \/ \E p \in P, u \in Usernames : get_user(p, u)

CharacterSteps(P, bodies) ==
    \/ \E p \in P, raw \in bodies : create_character(p, raw)
    \/ \E p \in P : list_characters(p)

ChatSteps(P) ==
    \/ \E p \in P, c \in KnownIds, u \in Posters, t \in Texts :
          post_message(p, c, [username |-> u, text |-> t])
    \/ \E p \in P : pm_insert_user(p)
    \/ \E p \in P : pm_insert_char(p)
    \/ \E p \in P : pm_find_all(p)
    \/ \E p \in P, c \in KnownIds : get_messages(p, c)

ImageSteps(P) ==
    \/ \E p \in P, raw \in RawImageRequests(KnownIds) : generate_image(p, raw)
    \/ \E p \in P : gi_find_user(p)

HealthSteps(P) ==
    \/ \E p \in P : root(p)
    \/ \E p \in P, url_set \in BOOLEAN : test_database(p, url_set)
    \/ \E p \in P, url_set \in BOOLEAN : test_database_error(p, url_set)

UserOps == {"upsert_user", "get_user"}
ChatOps == {"create_character", "list_characters", "post_message", "get_messages"}
ImageOps == {"upsert_user", "create_character", "generate_image"}

\* The handlers that never call hash() behave alike under every salt.
SameSalt == hashSalt = 0 /\ hashSalt' = 0

Next == UserSteps(Procs) \/ CharacterSteps(Procs, RawCharacters) \/ ChatSteps(Procs)
           \/ ImageSteps(Procs) \/ HealthSteps(Procs)
           \/ Environment(Procs, DataOps) \/ Tick \/ Restart

\* The whole service.
Spec == Init /\ [][Next]_vars

\* The user handlers alone, while the clock reads 0.
NextUsers == UserSteps(Procs) \/ Environment(Procs, UserOps) \/ (Restart /\ SameSalt)
InitUsers == Init /\ hashSalt = 0 /\ tieBreak = "natural"
SpecUsers == InitUsers /\ [][NextUsers]_vars

\* The character and chat handlers alone.
NextChat == CharacterSteps(Procs, ChatCharacters) \/ ChatSteps(Procs)
               \/ Environment(Procs, ChatOps)
               \/ Tick \/ (Restart /\ SameSalt)
InitChat == Init /\ hashSalt = 0
SpecChat == InitChat /\ [][NextChat]_vars

\* The image handler with the handlers that create what it reads, one
\* request at a time.
NextImages ==
    \/ UpsertSteps({1})
    \/ \E raw \in RawCharacters : create_character(1, raw)
    \/ ImageSteps({1})
    \/ Environment({1}, ImageOps)
    \/ Restart
InitImages == Init /\ tieBreak = "natural"
SpecImages == InitImages /\ [][NextImages]_vars

\* The whole service, one request at a time, while the clock reads 0.
NextSerial == UserSteps({1}) \/ CharacterSteps({1}, RawCharacters) \/ ChatSteps({1})
                 \/ ImageSteps({1}) \/ HealthSteps({1})
                 \/ Environment({1}, DataOps) \/ (Restart /\ SameSalt)
InitSerial == Init /\ hashSalt = 0 /\ tieBreak = "natural"
SpecSerial == InitSerial /\ [][NextSerial]_vars

(***************************************************************************)
(* Properties.                                                             *)
(***************************************************************************)
Indices(coll) == 1..Len(coll)

UsersNamed(coll, u) == { i \in Indices(coll) : coll[i].username = u }

IsPrefix(s, t) == Len(s) <= Len(t) /\ \A i \in Indices(s) : t[i] = s[i]

PostPcs == {"pm_insert_user", "pm_insert_char", "pm_find_all"}

CharacterIds == { character[i]._id : i \in Indices(character) }

Sent(op, status) ==
    response # NoResponse /\ response.op = op /\ response.status = status

\* The step in which handler p writes the user record of its upsert.
UpsertWrites(p) ==
    \/ pc[p] = "up_update" /\ pc'[p] = "up_reread"
    \/ pc[p] = "up_insert" /\ pc'[p] = "idle"
          /\ response' # NoResponse /\ response'.status = 200

\* C1: when an upsert-user call for profile p2 has written (by update_one on
\* the record an earlier call left, or by insert_one), the store holds exactly
\* one userprofile record with p2's username, and its age and trust_score are
\* p2's: null for an omitted age, 0 for an omitted trust_score.
C1_UpsertTwice ==
    [][\A p \in Procs :
         UpsertWrites(p) =>
            LET profile == frame[p].profile
                found   == UsersNamed(userprofile', profile.username)
            IN /\ Cardinality(found) = 1
               /\ \A i \in found :
                     /\ Get(userprofile'[i], "age", None) = profile.age
                     /\ Get(userprofile'[i], "trust_score", None) = profile.trust_score]_vars

\* A second upsert that omits age and trust_score has replaced 30 and 100.
C1_Witness ==
    /\ Sent("upsert_user", 200)
    /\ response.locals.existing # NoDoc
    /\ response.locals.existing.age = 30
    /\ response.locals.existing.trust_score = 100
    /\ response.locals.profile.age = None
    /\ response.locals.profile.trust_score = 0
    /\ Len(userprofile) = 1
    /\ userprofile[1].age = None
    /\ userprofile[1].trust_score = 0

\* C7: no reachable state of the store holds two userprofile records with
\* the same username, however the upserts interleave.
C7_UniqueUsername ==
    \A i, j \in Indices(userprofile) :
        userprofile[i].username = userprofile[j].username => i = j

\* Two upserts both found no record; the second insert_one was refused.
C7_Witness ==
    /\ response # NoResponse
    /\ response.op = "upsert_user"
    /\ response.status = 500
    /\ response.detail = "DuplicateKeyError"
    /\ Len(userprofile) = 1

\* C2: post-message proceeds past its lookup only for a stored character;
\* when it answers 404 nothing was inserted: the three collections are the
\* same after the call as before it.
C2_PostMissingCharacter ==
    [][/\ \A p \in Procs :
            pc[p] = "idle" /\ pc'[p] = "pm_insert_user" =>
                frame'[p].character_id \in CharacterIds
       /\ (response' # NoResponse /\ response'.op = "post_message"
              /\ response'.status = 404) =>
                (store' = store /\ pc' = pc /\ nextUuid' = nextUuid)]_vars

\* A 404 for post-message while characters and messages are stored.
C2_Witness ==
    /\ Sent("post_message", 404)
    /\ character # <<>>
    /\ message # <<>>

\* The messages of a successful post-message call, as the call left them.
TwoMessagesWritten(L) ==
    LET um == L.user_msg
        cm == L.char_msg
        iu == { i \in Indices(message) : message[i] = um }
        ic == { i \in Indices(message) : message[i] = cm }
    IN /\ L.inserted = <<um._id, cm._id>>
       /\ um.role = "user"
       /\ um.username = L.payload.username
       /\ um.text = L.payload.text
       /\ um.character_id = L.character_id
       /\ cm.role = "character"
       /\ cm.username = L.char.name
       /\ cm.character_id = L.character_id
       /\ cm.created_at = um.created_at
       /\ cm._id # um._id
       /\ Cardinality(iu) = 1
       /\ Cardinality(ic) = 1
       /\ \A i \in iu, j \in ic : i < j
       /\ Cardinality({ i \in Indices(message) : message[i]._id \in {um._id, cm._id} }) = 2

\* C3: a post-message call that runs to completion has inserted exactly two
\* records, first the role=user one with the caller's username and text, then
\* the role=character one named after the character, both with the given
\* character_id and the same created_at, with distinct ids; and no step
\* changes or removes a message that is stored.
C3_TwoMessages ==
    [][/\ IsPrefix(message, message')
       /\ (response' # NoResponse /\ response'.op = "post_message"
              /\ response'.status = 200) => TwoMessagesWritten(response.locals)']_vars

\* A completed call whose two messages follow messages stored before.
C3_Witness ==
    /\ Sent("post_message", 200)
    /\ Len(message) = 4
    /\ message[3]._id = response.locals.user_msg._id
    /\ message[4]._id = response.locals.char_msg._id

\* C8: every stored message's character_id is the id of a stored character.
C8_MessageHasCharacter ==
    \A i \in Indices(message) : message[i].character_id \in CharacterIds

\* Of two stored characters the second has messages.
C8_Witness ==
    /\ Len(character) = 2
    /\ Len(message) >= 2
    /\ message[1].character_id = character[2]._id

Count(c, role, t) ==
    Cardinality({ i \in Indices(message) :
                    /\ message[i].character_id = c
                    /\ message[i].role = role
                    /\ message[i].created_at = t })

CountAll(c, role) ==
    Cardinality({ i \in Indices(message) :
                    message[i].character_id = c /\ message[i].role = role })

\* C9: whenever no post-message call is mid-execution, the role=user and
\* role=character messages of each character pair up one-to-one with equal
\* created_at (so equally many of each at every created_at); and in every
\* state a character has at most as many role=character messages as
\* role=user ones.
C9_Pairs ==
    /\ (\A p \in Procs : pc[p] \notin PostPcs) =>
          \A c \in CharacterIds, t \in Times :
              Count(c, "user", t) = Count(c, "character", t)
    /\ \A c \in CharacterIds : CountAll(c, "character") <= CountAll(c, "user")

SortedBy(s, key) == \A i, j \in Indices(s) : i < j => s[i][key] <= s[j][key]

C4_NsfwBlocked ==
    (Sent("generate_image", 200) /\ response.locals.req.rating = "NSFW") =>
        /\ response.body.status = "blocked"
        /\ response.body.image_url = NoneStr

\* Blocked for an adult user of trust 100 and a character that allows NSFW.
C4_Witness ==
    /\ Sent("generate_image", 200)
    /\ response.locals.req.rating = "NSFW"
    /\ response.body.status = "blocked"
    /\ response.locals.user.trust_score = 100
    /\ response.locals.user.age = 30
    /\ response.locals.char.nsfw_allowed

\* C5: two SFW requests for the same stored character with the same prompt
\* are answered "completed" with the same image_url.
C5_SameUrl ==
    (/\ Sent("generate_image", 200)
     /\ response.locals.req.rating = "SFW"
     /\ shown # NoResponse
     /\ shown.character_id = response.locals.req.character_id
     /\ shown.prompt = response.locals.req.prompt) =>
        /\ response.body.status = "completed"
        /\ response.body.image_url = shown.image_url

\* C6: without a store handle no step touches the store; every response of a
\* data handler is the 500 "Database not available", sent before any store
\* call, and GET / and GET /test answer 200 and report the store as not
\* available.
C6_DatabaseNotAvailable ==
    [][db = "None" =>
         /\ store' = store
         /\ (response' # NoResponse /\ response'.op \in DataOps /\ response'.status # 422) =>
               /\ response'.status = 500
               /\ response'.detail = "Database not available"
               /\ response'.store_calls = 0
         /\ (response' # NoResponse /\ response'.op = "root") =>
               /\ response'.status = 200
               /\ response'.body.database = FALSE
         /\ (response' # NoResponse /\ response'.op = "test_database") =>
               /\ response'.status = 200
               /\ response'.body.database = "Not Available"
               /\ response'.body.collections = <<>>]_vars

\* A data handler refused while the store holds documents of earlier calls.
C6_Witness ==
    /\ db = "None"
    /\ Sent("get_messages", 500)
    /\ response.detail = "Database not available"
    /\ message # <<>>
    /\ userprofile # <<>>

====
